---- MODULE Spec2Model ----
(***************************************************************************)
(* A model of two components of projen:                                    *)
(*   - WorkflowSteps (github/workflow-steps): pure builders of JobSteps;   *)
(*   - typescript.Projenrc (src/typescript/projenrc.ts): the component     *)
(*     that scaffolds .projenrc.ts once and wires it into tsconfig/eslint. *)
(*                                                                         *)
(* JavaScript values are tagged tuples <<tag, payload>>, so that values of *)
(* different JavaScript types can be compared.  A JavaScript string is a   *)
(* sequence of tokens (template literals concatenate token sequences); a   *)
(* JavaScript object is a function from its own keys to values (key order  *)
(* is not modelled).                                                       *)
(***************************************************************************)
EXTENDS Integers, Sequences, FiniteSets, TLC

VARIABLES
  op,         \* the WorkflowSteps builder called last ("none" before any call)
  options,    \* the options argument of that call
  tag,        \* the tag argument of that call (tagExists only)
  step,       \* the JobStep that call returned
  initProject,  \* project.initProject: the bootstrap descriptor, or undefined
  fs,           \* the files on disk: resolved path -> content
  writes,       \* the paths outputFileSync was called with, in call order
  logger,       \* the messages given to project.logger.info, in call order
  thrown,       \* what the last constructor or hook call threw (undefined: nothing)
  devDeps,      \* the dev dependencies of the project
  defaultTask,  \* project.defaultTask (undefined, or its steps)
  tsconfigDev,  \* project.tsconfigDev: its include patterns
  eslint,       \* project.eslint (undefined, or its pattern collections)
  constructions,  \* how many times the Projenrc constructor was called
  components,   \* the Projenrc components constructed, in order
  synthCalls,   \* how often preSynthesize ran, per component
  gen           \* where the last generateProjenrc ended, and its locals

stepVars == <<op, options, tag, step>>

projectVars ==
  <<initProject, fs, writes, logger, thrown, devDeps, defaultTask, tsconfigDev,
    eslint, constructions, components, synthCalls, gen>>

vars == <<stepVars, projectVars>>

---------------------------------------------------------------------------
(* JavaScript values *)

Undefined == <<"undefined">>
Null == <<"null">>
Bool(b) == <<"boolean", b>>
Num(n) == <<"number", n>>
Str(tokens) == <<"string", tokens>>
Lit(token) == Str(<<token>>)
Obj(o) == <<"object", o>>

EmptyObject == [k \in {} |-> Undefined]

\* `v === null || v === undefined`
IsNullish(v) == v[1] \in {"undefined", "null"}

\* `o.k` on an object o (a missing property reads as undefined)
Get(o, k) == IF k \in DOMAIN o THEN o[k] ELSE Undefined

\* `v?.k` on a value v
OptGet(v, k) == IF IsNullish(v) THEN Undefined ELSE Get(v[2], k)

\* `v ?? d`
Coalesce(v, d) == IF IsNullish(v) THEN d ELSE v

\* the truthiness of v, as `v ? a : b` tests it
Truthy(v) ==
  CASE v[1] = "boolean" -> v[2]
    [] v[1] = "number" -> v[2] # 0
    [] v[1] = "string" -> v[2] # <<>>
    [] v[1] = "object" -> TRUE
    [] OTHER -> FALSE

\* `{ ...a, ...b }`
Spread(a, b) ==
  [k \in DOMAIN a \cup DOMAIN b |-> IF k \in DOMAIN b THEN b[k] ELSE a[k]]

\* `${v}` of a string v inside a template literal
Interp(v) == v[2]

\* `lines.join(sep)`
RECURSIVE join(_, _)
join(lines, sep) ==
  IF lines = <<>> THEN <<>>
  ELSE IF Len(lines) = 1 THEN lines[1]
  ELSE lines[1] \o sep \o join(Tail(lines), sep)

\* util/object: a copy of obj without the keys whose value is null or undefined
removeNullOrUndefinedProperties(obj) ==
  [k \in {j \in DOMAIN obj : ~IsNullish(obj[j])} |-> obj[k]]

---------------------------------------------------------------------------
(* WorkflowSteps *)

buildJobStepConfigPassThrough(opts) == opts[2]

buildJobStepConfig(opts) ==
  [ continueOnError |-> OptGet(opts, "continueOnError"),
    env |-> OptGet(opts, "env"),
    id |-> OptGet(opts, "id"),
    if |-> OptGet(opts, "if"),
    name |-> OptGet(opts, "name"),
    timeoutMinutes |-> OptGet(opts, "timeoutMinutes"),
    workingDirectory |-> OptGet(opts, "workingDirectory") ]

checkoutLfsAlways(optionsArg) ==
  LET opts == IF optionsArg = Undefined THEN Obj(EmptyObject) ELSE optionsArg
      with == OptGet(opts, "with")
      checkoutWith == removeNullOrUndefinedProperties(
        ("fetch-depth" :> OptGet(with, "fetchDepth"))
        @@ ("token" :> OptGet(with, "token"))
        @@ ("ref" :> OptGet(with, "ref"))
        @@ ("repository" :> OptGet(with, "repository"))
        @@ ("lfs" :> OptGet(with, "lfs")))
  IN Spread(
       buildJobStepConfig(Obj(Spread(opts[2],
         [name |-> Coalesce(Get(opts[2], "name"), Lit("Checkout"))]))),
       [ uses |-> Lit("actions/checkout@v3"),
         with |-> IF Cardinality(DOMAIN checkoutWith) > 0
                  THEN Obj(checkoutWith) ELSE Undefined ])

checkoutNoCollapse(optionsArg) ==
  LET opts == IF optionsArg = Undefined THEN Obj(EmptyObject) ELSE optionsArg
      with == OptGet(opts, "with")
      checkoutWith == removeNullOrUndefinedProperties(Spread(
        ("fetch-depth" :> OptGet(with, "fetchDepth"))
        @@ ("token" :> OptGet(with, "token"))
        @@ ("ref" :> OptGet(with, "ref"))
        @@ ("repository" :> OptGet(with, "repository")),
        IF Truthy(OptGet(with, "lfs")) THEN [lfs |-> Bool(TRUE)] ELSE EmptyObject))
  IN Spread(
       buildJobStepConfig(Obj(Spread(opts[2],
         [name |-> Coalesce(Get(opts[2], "name"), Lit("Checkout"))]))),
       [ uses |-> Lit("actions/checkout@v3"),
         with |-> Obj(checkoutWith) ])

checkout(optionsArg) ==
  LET opts == IF optionsArg = Undefined THEN Obj(EmptyObject) ELSE optionsArg
      with == OptGet(opts, "with")
      checkoutWith == removeNullOrUndefinedProperties(Spread(
        ("fetch-depth" :> OptGet(with, "fetchDepth"))
        @@ ("token" :> OptGet(with, "token"))
        @@ ("ref" :> OptGet(with, "ref"))
        @@ ("repository" :> OptGet(with, "repository")),
        IF Truthy(OptGet(with, "lfs")) THEN [lfs |-> Bool(TRUE)] ELSE EmptyObject))
  IN Spread(
       buildJobStepConfig(Obj(Spread(opts[2],
         [name |-> Coalesce(Get(opts[2], "name"), Lit("Checkout"))]))),
       [ uses |-> Lit("actions/checkout@v3"),
         with |-> IF Cardinality(DOMAIN checkoutWith) > 0
                  THEN Obj(checkoutWith) ELSE Undefined ])

setupGitIdentity(opts) ==
  Spread(
    buildJobStepConfig(Obj(Spread(opts[2],
      [name |-> Coalesce(Get(opts[2], "name"), Lit("Set git identity"))]))),
    [ run |-> Str(join(
        << <<"git config user.name \"">>
             \o Interp(Get(Get(opts[2], "gitIdentity")[2], "name")) \o <<"\"">>,
           <<"git config user.email \"">>
             \o Interp(Get(Get(opts[2], "gitIdentity")[2], "email")) \o <<"\"">> >>,
        <<"\n">>)) ])

checkTag(remoteTag) ==
  <<"git ls-remote -q --exit-code --tags origin ">> \o remoteTag

varIsSet(variable) == <<"[ ! -z \"$">> \o variable \o <<"\" ]">>

setOutput(value) ==
  <<"(echo \"exists=">> \o <<IF value THEN "true" ELSE "false">>
    \o <<"\" >> $GITHUB_OUTPUT)">>

tagExists(tagArg, opts) ==
  Spread(
    buildJobStepConfig(Obj(Spread(opts[2],
      [ name |-> Coalesce(Get(opts[2], "name"), Lit("Check if tag exists")),
        id |-> Coalesce(Get(opts[2], "id"), Lit("check-tag")) ]))),
    [ run |-> Str(join(
        << <<"TAG=">> \o Interp(tagArg),
           <<"(">> \o varIsSet(<<"TAG">>) \o <<" && ">> \o checkTag(<<"$TAG">>)
             \o <<" && ">> \o setOutput(TRUE) \o <<") || ">> \o setOutput(FALSE),
           <<"cat $GITHUB_OUTPUT">> >>,
        <<"\n">>)) ])

uploadArtifactOverwriteOr(opts) ==
  LET with == OptGet(opts, "with")
      uploadArtifactWith == removeNullOrUndefinedProperties(
        ("name" :> OptGet(with, "name"))
        @@ ("path" :> OptGet(with, "path"))
        @@ ("overwrite" :>
              IF Truthy(OptGet(with, "overwrite"))
              THEN OptGet(with, "overwrite") ELSE Bool(TRUE))
        @@ ("if-no-files-found" :> OptGet(with, "ifNoFilesFound"))
        @@ ("retention-days" :> OptGet(with, "retentionDays"))
        @@ ("compression-level" :> OptGet(with, "compressionLevel")))
  IN Spread(
       buildJobStepConfig(Obj(Spread(opts[2],
         [name |-> Coalesce(Get(opts[2], "name"), Lit("Upload artifact"))]))),
       [ uses |-> Lit("actions/upload-artifact@v4"),
         with |-> Obj(uploadArtifactWith) ])

uploadArtifact(opts) ==
  LET with == OptGet(opts, "with")
      uploadArtifactWith == removeNullOrUndefinedProperties(
        ("name" :> OptGet(with, "name"))
        @@ ("path" :> OptGet(with, "path"))
        @@ ("overwrite" :> Coalesce(OptGet(with, "overwrite"), Bool(TRUE)))
        @@ ("if-no-files-found" :> OptGet(with, "ifNoFilesFound"))
        @@ ("retention-days" :> OptGet(with, "retentionDays"))
        @@ ("compression-level" :> OptGet(with, "compressionLevel")))
  IN Spread(
       buildJobStepConfig(Obj(Spread(opts[2],
         [name |-> Coalesce(Get(opts[2], "name"), Lit("Upload artifact"))]))),
       [ uses |-> Lit("actions/upload-artifact@v4"),
         with |-> Obj(uploadArtifactWith) ])

---------------------------------------------------------------------------
(* The inputs the builders are called with *)

Absent == <<"absent">>

\* every object that gives each key of `choices` one of its values, or leaves
\* it out where the value chosen is Absent
RECURSIVE ObjectsOver(_)
ObjectsOver(choices) ==
  IF DOMAIN choices = {} THEN {EmptyObject}
  ELSE LET k == CHOOSE j \in DOMAIN choices : TRUE
           rest == [j \in DOMAIN choices \ {k} |-> choices[j]]
       IN UNION { { IF v = Absent THEN o ELSE o @@ (k :> v) : o \in ObjectsOver(rest) }
                  : v \in choices[k] }

\* JobStepConfiguration fields, and fields that are not part of it
CommonChoices ==
  [ name |-> {Absent, Null, Lit("my step")},
    id |-> {Absent, Lit("my-id")},
    if |-> {Absent, Lit("always()")},
    continueOnError |-> {Absent, Bool(TRUE)},
    env |-> {Absent, Obj([CI |-> Lit("1")])},
    timeoutMinutes |-> {Absent, Num(5)},
    workingDirectory |-> {Absent, Lit("pkg")},
    uses |-> {Absent, Lit("evil/action@v1")},
    run |-> {Absent, Lit("rm -rf /")} ]

CheckoutWithChoices ==
  [ fetchDepth |-> {Absent, Null, Num(0)},
    token |-> {Absent, Undefined, Lit("${{ secrets.T }}")},
    ref |-> {Absent, Lit("main")},
    repository |-> {Absent, Null},
    lfs |-> {Absent, Undefined, Null, Bool(TRUE), Bool(FALSE)} ]

UploadArtifactWithChoices ==
  [ name |-> {Absent, Lit("build-artifact")},
    path |-> {Lit("dist")},
    overwrite |-> {Absent, Undefined, Null, Bool(TRUE), Bool(FALSE)},
    ifNoFilesFound |-> {Absent, Lit("error")},
    retentionDays |-> {Absent, Null, Num(0)},
    compressionLevel |-> {Absent, Num(0)} ]

GitIdentities == { [name |-> Lit("bot"), email |-> Lit("bot@example.com")] }

Tags == { Lit("v1.2.3"), Lit("$(cat version.txt)") }

CommonConfigs == ObjectsOver(CommonChoices)

CheckoutInputs ==
  {Undefined} \cup
  { Obj(c) : c \in CommonConfigs } \cup
  { Obj(Spread(c, [with |-> w])) :
      c \in {EmptyObject, [name |-> Lit("my step"), uses |-> Lit("evil/action@v1")]},
      w \in {Undefined} \cup { Obj(o) : o \in ObjectsOver(CheckoutWithChoices) } }

UploadArtifactInputs ==
  { Obj(Spread(c, [with |-> Obj([path |-> Lit("dist")])])) : c \in CommonConfigs } \cup
  { Obj(Spread(c, [with |-> Obj(w)])) :
      c \in {EmptyObject, [name |-> Lit("my step"), uses |-> Lit("evil/action@v1")]},
      w \in ObjectsOver(UploadArtifactWithChoices) }

SetupGitIdentityInputs ==
  { Obj(Spread(c, [gitIdentity |-> Obj(g)])) : c \in CommonConfigs, g \in GitIdentities }

TagExistsInputs == { Obj(c) : c \in CommonConfigs }

---------------------------------------------------------------------------
(* What Projenrc calls: path, fs-extra, ModuleImports, the project *)

\* `s.split(sep)` for a separator of one token
RECURSIVE split(_, _)
split(s, sep) ==
  IF \A i \in 1..Len(s) : s[i] # sep THEN <<s>>
  ELSE LET i == CHOOSE j \in 1..Len(s) :
                  s[j] = sep /\ \A h \in 1..(j - 1) : s[h] # sep
       IN <<SubSeq(s, 1, i - 1)>> \o split(SubSeq(s, i + 1, Len(s)), sep)

\* `a[i]` with JavaScript's 0-based index: undefined past the end
At(a, i) == IF i + 1 \in 1..Len(a) THEN Str(a[i + 1]) ELSE Undefined

\* `a.slice(n)`
slice(a, n) == SubSeq(a, n + 1, Len(a))

\* `a.push(...items)`
push(a, items) == a \o items

\* an element of an array as `join` prints it: null and undefined print empty
Printed(v) == IF IsNullish(v) THEN <<>> ELSE v[2]

Range(seq) == { seq[i] : i \in 1..Len(seq) }

\* the segments of a path with "", "." and ".." resolved
RECURSIVE normalize(_, _)
normalize(segments, acc) ==
  IF segments = <<>> THEN acc
  ELSE normalize(Tail(segments),
         IF segments[1] \in {<<>>, <<".">>} THEN acc
         ELSE IF segments[1] = <<"..">>
              THEN SubSeq(acc, 1, Len(acc) - 1)
              ELSE Append(acc, segments[1]))

\* path.resolve(from, to), from being absolute
resolve(from, to) ==
  LET absolute == IF to # <<>> /\ to[1] = "/" THEN to ELSE from \o <<"/">> \o to
  IN <<"/">> \o join(normalize(split(absolute, "/"), <<>>), <<"/">>)

existsSync(path) == path \in DOMAIN fs

\* the files after outputFileSync(path, data): the file is created or replaced
outputFileSync(files, path, data) ==
  [q \in DOMAIN files \cup {path} |-> IF q = path THEN data ELSE files[q]]

\* ModuleImports.add: one entry per module, the names of a module merged
ModuleImportsAdd(imports, moduleName, importName) ==
  IF \E i \in 1..Len(imports) : imports[i].module = moduleName
  THEN [i \in 1..Len(imports) |->
          IF imports[i].module = moduleName /\ importName \notin Range(imports[i].names)
          THEN [imports[i] EXCEPT !.names = Append(@, importName)]
          ELSE imports[i]]
  ELSE Append(imports, [module |-> moduleName, names |-> <<importName>>])

\* ModuleImports.asEsmImports: one import statement per module
asEsmImports(imports) ==
  [i \in 1..Len(imports) |->
     <<"import { ">>
       \o join([j \in 1..Len(imports[i].names) |-> Printed(imports[i].names[j])], <<", ">>)
       \o <<" } from \"">> \o Printed(imports[i].module) \o <<"\";">>]

\* a pattern collection with set semantics: adding what is there changes nothing
addPattern(patterns, pattern) ==
  IF pattern \in Range(patterns) THEN patterns ELSE Append(patterns, pattern)

addDevDeps(deps, dep) == deps \cup {dep}

addInclude(tsconfig, pattern) ==
  [tsconfig EXCEPT !.include = addPattern(@, pattern)]

addLintPattern(linter, pattern) ==
  [linter EXCEPT !.lintPatterns = addPattern(@, pattern)]

allowDevDeps(linter, pattern) ==
  [linter EXCEPT !.allowDevDeps = addPattern(@, pattern)]

addIgnorePattern(linter, pattern) ==
  [linter EXCEPT !.ignorePatterns = addPattern(@, pattern)]

addOverride(linter, override) ==
  [linter EXCEPT !.overrides = addPattern(@, override)]

\* project.outdir
outdir == <<"/", "work", "/", "proj">>

---------------------------------------------------------------------------
(* Projenrc *)

\* the result of a generateProjenrc that has not rendered, written or thrown
Ended(exit, rcfile) ==
  [ exit |-> exit, rcfile |-> rcfile, written |-> <<>>, info |-> <<>>,
    thrown |-> Undefined, rendered |-> <<>>,
    moduleName |-> Undefined, importName |-> Undefined, className |-> Undefined,
    imports |-> <<>> ]

qualifiedNameLastSegment(fqn) ==
  LET parts == split(fqn[2], ".")
  IN [ moduleName |-> At(parts, 0),
       importName |-> At(parts, 1),
       className |-> Str(parts[Len(parts)]) ]

\* lines 83-86: the module, the imported symbol and the class of a name
qualifiedName(fqn) ==
  LET parts == split(fqn[2], ".")
  IN [ moduleName |-> At(parts, 0),
       importName |-> At(parts, 1),
       className |-> Str(join(slice(parts, 1), <<".">>)) ]

renderThrewAfterWrite(rcfile, name, rendered) ==
  [Ended("threw", rcfile) EXCEPT
     !.written = << Str(<<"const project = new ">> \o Interp(name.className) \o <<"(">>) >>,
     !.rendered = <<rendered>>,
     !.thrown = rendered.error,
     !.moduleName = name.moduleName,
     !.importName = name.importName,
     !.className = name.className]

\* lines 88-92, renderJavaScriptOptions throwing: the error leaves
\* generateProjenrc before anything is written or logged
renderThrew(rcfile, name, rendered) ==
  [Ended("threw", rcfile) EXCEPT
     !.rendered = <<rendered>>,
     !.thrown = rendered.error,
     !.moduleName = name.moduleName,
     !.importName = name.importName,
     !.className = name.className]

\* lines 94-106: the lines of the file, the write and the notice
emit(rcfile, name, rendered) ==
  LET imports == ModuleImportsAdd(rendered.imports, name.moduleName, name.importName)
      lines0 == <<>>
      lines1 == push(lines0, asEsmImports(imports))
      lines2 == push(lines1, <<>>)
      lines3 == push(lines2,
        << <<"const project = new ">> \o Interp(name.className) \o <<"(">>
             \o rendered.renderedOptions \o <<");">> >>)
      lines4 == push(lines3, <<>>)
      lines5 == push(lines4, << <<"project.synth();">> >>)
  IN [Ended("written", rcfile) EXCEPT
        !.written = <<Str(join(lines5, <<"\n">>))>>,
        !.info = << <<"Project definition file was created at ">> \o rcfile >>,
        !.rendered = <<rendered>>,
        !.moduleName = name.moduleName,
        !.importName = name.importName,
        !.className = name.className,
        !.imports = imports]

\* lines 83-106: render the descriptor, then write the file
scaffold(rcfile, bootstrap, rendered) ==
  LET name == qualifiedName(bootstrap[2].fqn)
  IN IF ~rendered.ok THEN renderThrew(rcfile, name, rendered)
     ELSE emit(rcfile, name, rendered)

generateProjenrcNoExistsCheck(this, rendered) ==
  LET rcfile == resolve(outdir, Interp(this.rcfile))
      bootstrap == initProject
  IN IF ~Truthy(bootstrap) THEN Ended("noBootstrap", rcfile)
     ELSE scaffold(rcfile, bootstrap, rendered)

generateProjenrcNoBootstrapCheck(this, rendered) ==
  LET rcfile == resolve(outdir, Interp(this.rcfile))
      bootstrap == initProject
  IN IF existsSync(rcfile) THEN Ended("exists", rcfile)
     ELSE IF ~Truthy(bootstrap)
          THEN [Ended("threw", rcfile) EXCEPT !.thrown = Lit("TypeError")]
          ELSE scaffold(rcfile, bootstrap, rendered)

\* lines 72-107
generateProjenrc(this, rendered) ==
  LET rcfile == resolve(outdir, Interp(this.rcfile))
      bootstrap == initProject
  IN IF existsSync(rcfile) THEN Ended("exists", rcfile)
     ELSE IF ~Truthy(bootstrap) THEN Ended("noBootstrap", rcfile)
          ELSE scaffold(rcfile, bootstrap, rendered)

preSynthesizeResetsInclude(this) ==
  LET rcfile == Interp(this.rcfile)
      dir == Interp(this._projenCodeDir)
  IN [ tsconfigDev |->
         [tsconfigDev EXCEPT !.include = <<rcfile, dir \o <<"/**/*.ts">> >>],
       eslint |-> eslint ]

\* lines 52-70: the project configuration after preSynthesize
preSynthesize(this) ==
  LET rcfile == Interp(this.rcfile)
      dir == Interp(this._projenCodeDir)
      tsconfig1 == addInclude(tsconfigDev, rcfile)
      tsconfig2 == addInclude(tsconfig1, dir \o <<"/**/*.ts">>)
      linter1 == addLintPattern(eslint[2], dir)
      linter2 == addLintPattern(linter1, rcfile)
      linter3 == allowDevDeps(linter2, rcfile)
      linter4 == allowDevDeps(linter3, dir \o <<"/**/*.ts">>)
      linter5 == addIgnorePattern(linter4, <<"!">> \o rcfile)
      linter6 == addIgnorePattern(linter5, <<"!">> \o dir \o <<"/**/*.ts">>)
      linter7 == addOverride(linter6,
        [ files |-> <<rcfile>>,
          rules |-> ("@typescript-eslint/no-require-imports" :> "off")
                    @@ ("import/no-extraneous-dependencies" :> "off") ])
  IN [ tsconfigDev |-> tsconfig2,
       eslint |-> IF IsNullish(eslint) THEN eslint ELSE Obj(linter7) ]

---------------------------------------------------------------------------
(* Bounds and inputs *)

MaxConstructions == 2
MaxSynthCalls == 2
MaxSegments == 3

\* the segments of the bootstrap names tried: every list of up to MaxSegments
\* identifiers, and lists with an empty segment
FqnSegments ==
  UNION { [1..n -> {<<"pkg">>, <<"sub">>, <<"Foo">>}] : n \in 1..MaxSegments }
    \cup { << <<>> >>, << <<"pkg">>, <<>> >>, << <<>>, <<"sub">> >>,
           << <<"pkg">>, <<>>, <<"Foo">> >> }

Bootstraps ==
  { Obj([fqn |-> Str(join(segments, <<".">>)), args |-> Obj([name |-> Lit("my-project")])])
      : segments \in FqnSegments }

\* what renderJavaScriptOptions may do: throw, or return the rendered
\* options and the imports they need
RenderOutcomes ==
  { [ok |-> FALSE, error |-> Lit("un-renderable option"),
     renderedOptions |-> <<>>, imports |-> <<>>] }
  \cup
  { [ok |-> TRUE, error |-> Undefined, renderedOptions |-> <<"{}">>, imports |-> <<>>],
    [ok |-> TRUE, error |-> Undefined,
     renderedOptions |-> <<"{", "\n", "  name: \"my-project\",", "\n", "}">>,
     imports |-> << [module |-> Lit("pkg"), names |-> <<Lit("javascript")>>],
                    [module |-> Lit("other"), names |-> <<Lit("Thing")>>] >>] }

\* the ProjenrcOptions tried; undefined is a call without options
ProjenrcOptionsInputs ==
  { Undefined,
    Obj([filename |-> Str(<<".", "/", ".projenrc.ts">>)]),
    Obj([filename |-> Lit("rc.ts"), projenCodeDir |-> Lit("tools")]) }

UserContent == Lit("// written by the user")

FreshLinter ==
  [ lintPatterns |-> << <<"src">> >>,
    allowDevDeps |-> << <<"test/**">> >>,
    ignorePatterns |-> << <<"*.js">> >>,
    overrides |-> <<>> ]

---------------------------------------------------------------------------
(* The constructor and the hook *)

\* the project before any Projenrc is constructed
InitProject ==
  /\ initProject \in {Undefined} \cup Bootstraps
  /\ fs \in { <<>>, [q \in {resolve(outdir, <<".projenrc.ts">>)} |-> UserContent] }
  /\ writes = <<>>
  /\ logger = <<>>
  /\ thrown = Undefined
  /\ devDeps = {"typescript"}
  /\ defaultTask \in {Undefined, Obj([steps |-> <<>>])}
  /\ tsconfigDev \in
       { [fileName |-> Lit("tsconfig.dev.json"), include |-> inc] :
           inc \in { << <<"src/**/*.ts">> >>, << <<".projenrc.ts">>, <<"src/**/*.ts">> >> } }
  /\ eslint \in {Undefined, Obj(FreshLinter)}
  /\ constructions = 0
  /\ components = <<>>
  /\ synthCalls = <<>>
  /\ gen = Ended("none", <<>>)

\* lines 31-50: new Projenrc(project, options)
NewProjenrc ==
  \E optionsArg \in ProjenrcOptionsInputs, rendered \in RenderOutcomes :
    LET opts == IF optionsArg = Undefined THEN Obj(EmptyObject) ELSE optionsArg
        this == [ rcfile |-> Coalesce(Get(opts[2], "filename"), Lit(".projenrc.ts")),
                  _projenCodeDir |-> Coalesce(Get(opts[2], "projenCodeDir"), Lit("projenrc")) ]
        result == generateProjenrc(this, rendered)
    IN /\ constructions < MaxConstructions
       /\ constructions' = constructions + 1
       /\ devDeps' = addDevDeps(devDeps, "ts-node")
       /\ defaultTask' =
            IF IsNullish(defaultTask) THEN defaultTask
            ELSE Obj([defaultTask[2] EXCEPT !.steps = Append(@,
                   <<"ts-node --project ">> \o Interp(tsconfigDev.fileName)
                     \o <<" ">> \o Interp(this.rcfile))])
       /\ fs' = IF result.written = <<>> THEN fs
                ELSE outputFileSync(fs, result.rcfile, result.written[1])
       /\ writes' = IF result.written = <<>> THEN writes ELSE Append(writes, result.rcfile)
       /\ logger' = logger \o result.info
       /\ thrown' = result.thrown
       /\ gen' = result
       /\ components' = IF result.thrown = Undefined THEN Append(components, this) ELSE components
       /\ synthCalls' = IF result.thrown = Undefined THEN Append(synthCalls, 0) ELSE synthCalls
       /\ UNCHANGED <<initProject, tsconfigDev, eslint, stepVars>>

RECURSIVE Sum(_)
Sum(counts) == IF counts = <<>> THEN 0 ELSE counts[1] + Sum(Tail(counts))

\* lines 52-70: the preSynthesize hook of a constructed component
PreSynthesize ==
  \E i \in 1..Len(components) :
    LET result == preSynthesize(components[i])
    IN /\ Sum(synthCalls) < MaxSynthCalls
       /\ tsconfigDev' = result.tsconfigDev
       /\ eslint' = result.eslint
       /\ synthCalls' = [synthCalls EXCEPT ![i] = @ + 1]
       /\ thrown' = Undefined
       /\ UNCHANGED <<initProject, fs, writes, logger, devDeps, defaultTask,
                      constructions, components, gen, stepVars>>

---------------------------------------------------------------------------
(* The arguments of a call are drawn in the initial state; one action per *)
(* builder applies it to them and records the JobStep it returned.         *)

StepInputs ==
  CheckoutInputs \cup UploadArtifactInputs \cup SetupGitIdentityInputs
    \cup TagExistsInputs

\* no project is involved in building a step
NoProject ==
  /\ initProject = Undefined
  /\ fs = <<>>
  /\ writes = <<>>
  /\ logger = <<>>
  /\ thrown = Undefined
  /\ devDeps = {}
  /\ defaultTask = Undefined
  /\ tsconfigDev = [fileName |-> Lit("tsconfig.dev.json"), include |-> <<>>]
  /\ eslint = Undefined
  /\ constructions = 0
  /\ components = <<>>
  /\ synthCalls = <<>>
  /\ gen = Ended("none", <<>>)

InitSteps ==
  /\ op = "none"
  /\ options \in StepInputs
  /\ tag \in Tags
  /\ step = EmptyObject
  /\ NoProject

Checkout ==
  /\ op = "none"
  /\ options \in CheckoutInputs
  /\ op' = "checkout"
  /\ step' = checkout(options)
  /\ UNCHANGED <<options, tag, projectVars>>

SetupGitIdentity ==
  /\ op = "none"
  /\ options \in SetupGitIdentityInputs
  /\ op' = "setupGitIdentity"
  /\ step' = setupGitIdentity(options)
  /\ UNCHANGED <<options, tag, projectVars>>

TagExists ==
  /\ op = "none"
  /\ options \in TagExistsInputs
  /\ op' = "tagExists"
  /\ step' = tagExists(tag, options)
  /\ UNCHANGED <<options, tag, projectVars>>

UploadArtifact ==
  /\ op = "none"
  /\ options \in UploadArtifactInputs
  /\ op' = "uploadArtifact"
  /\ step' = uploadArtifact(options)
  /\ UNCHANGED <<options, tag, projectVars>>

NextSteps == Checkout \/ SetupGitIdentity \/ TagExists \/ UploadArtifact

SpecSteps == InitSteps /\ [][NextSteps]_vars

---------------------------------------------------------------------------
(* Projenrc: constructions against one project, and its hook *)

NoStep ==
  /\ op = "none"
  /\ options = Undefined
  /\ tag = Undefined
  /\ step = EmptyObject

\* generation: any bootstrap descriptor, the file there or not
InitGen ==
  /\ NoStep
  /\ InitProject
  /\ defaultTask # Undefined
  /\ eslint # Undefined
  /\ Len(tsconfigDev.include) = 1

NextGen == NewProjenrc

SpecGen == InitGen /\ [][NextGen]_vars

\* the hook: any project configuration, one bootstrap descriptor or none
InitSynth ==
  /\ NoStep
  /\ InitProject
  /\ Truthy(initProject) => initProject[2].fqn = Str(<<"pkg", ".", "sub", ".", "Foo">>)
  /\ fs = <<>>

NextSynth == NewProjenrc \/ PreSynthesize

SpecSynth == InitSynth /\ [][NextSynth]_vars

---------------------------------------------------------------------------
(* Properties of the builders *)

\* the options object a call reads (checkout defaults a missing argument to {})
OptionsRead == IF options = Undefined THEN EmptyObject ELSE options[2]

\* C3: for checkout and uploadArtifact, the emitted `with` is either undefined
\* or a non-empty map none of whose values is null or undefined: no key
\* carries null/undefined, and a map with no surviving entry is emitted as
\* undefined and never as {}.
C3_WithIsCompact ==
  op \in {"checkout", "uploadArtifact"} =>
    /\ "with" \in DOMAIN step
    /\ \/ step["with"] = Undefined
       \/ /\ step["with"][1] = "object"
          /\ DOMAIN step["with"][2] # {}
          /\ \A k \in DOMAIN step["with"][2] : ~IsNullish(step["with"][2][k])

\* a checkout whose `with` was given, holding only null/undefined/false
\* values, came out with `with` undefined
C3_Witness ==
  /\ op = "checkout"
  /\ ~IsNullish(Get(OptionsRead, "with"))
  /\ DOMAIN Get(OptionsRead, "with")[2] = {"fetchDepth", "token", "repository", "lfs"}
  /\ Get(Get(OptionsRead, "with")[2], "lfs") = Bool(FALSE)
  /\ step["with"] = Undefined

\* C4: checkout emits lfs: true exactly when with.lfs is true; when with.lfs
\* is omitted (absent, undefined, null) or false, the emitted map has no lfs
\* key, whatever the other checkout parameters are.
C4_LfsOnlyWhenTrue ==
  op = "checkout" =>
    IF OptGet(Get(OptionsRead, "with"), "lfs") = Bool(TRUE)
    THEN /\ step["with"] # Undefined
         /\ "lfs" \in DOMAIN step["with"][2]
         /\ step["with"][2]["lfs"] = Bool(TRUE)
    ELSE \/ step["with"] = Undefined
         \/ "lfs" \notin DOMAIN step["with"][2]

\* a checkout given lfs: false together with a ref emitted a map without lfs
C4_Witness ==
  /\ op = "checkout"
  /\ OptGet(Get(OptionsRead, "with"), "lfs") = Bool(FALSE)
  /\ step["with"] # Undefined
  /\ "ref" \in DOMAIN step["with"][2]
  /\ "lfs" \notin DOMAIN step["with"][2]

\* C5: uploadArtifact always emits overwrite: true when the caller omits it
\* or passes null/undefined, the caller's own value otherwise (false stays
\* false); with only path supplied the map is exactly {path, overwrite: true}.
C5_OverwriteDefaultsTrue ==
  op = "uploadArtifact" =>
    LET given == Get(OptionsRead, "with")[2]
        emitted == step["with"][2]
    IN /\ "overwrite" \in DOMAIN emitted
       /\ emitted["overwrite"] =
            IF IsNullish(Get(given, "overwrite")) THEN Bool(TRUE)
            ELSE Get(given, "overwrite")
       /\ DOMAIN given = {"path"} =>
            emitted = ("path" :> given["path"]) @@ ("overwrite" :> Bool(TRUE))

\* an uploadArtifact given overwrite: false emitted overwrite: false
C5_Witness ==
  /\ op = "uploadArtifact"
  /\ Get(Get(OptionsRead, "with")[2], "overwrite") = Bool(FALSE)
  /\ step["with"][2]["overwrite"] = Bool(FALSE)

AllowedFields ==
  {"continueOnError", "env", "id", "if", "name", "timeoutMinutes", "workingDirectory"}

\* C10: every emitted step has exactly the allowlisted common fields plus the
\* fields its builder sets (uses and with, or run); each allowlisted field is
\* the caller's, except that a missing name (and, for tagExists, id) is the
\* kind's default; the builder's own uses is never the caller's; any other
\* input field (gitIdentity, a caller's uses or run) is dropped.
C10_OnlyAllowlistedFields ==
  op # "none" =>
    /\ DOMAIN step = AllowedFields \cup
         (IF op \in {"checkout", "uploadArtifact"} THEN {"uses", "with"} ELSE {"run"})
    /\ \A k \in AllowedFields \ {"name", "id"} : step[k] = Get(OptionsRead, k)
    /\ step["name"] =
         Coalesce(Get(OptionsRead, "name"),
           CASE op = "checkout" -> Lit("Checkout")
             [] op = "setupGitIdentity" -> Lit("Set git identity")
             [] op = "tagExists" -> Lit("Check if tag exists")
             [] op = "uploadArtifact" -> Lit("Upload artifact"))
    /\ step["id"] =
         IF op = "tagExists" THEN Coalesce(Get(OptionsRead, "id"), Lit("check-tag"))
         ELSE Get(OptionsRead, "id")
    /\ op = "checkout" => step["uses"] = Lit("actions/checkout@v3")
    /\ op = "uploadArtifact" => step["uses"] = Lit("actions/upload-artifact@v4")
    /\ op \in {"setupGitIdentity", "tagExists"} =>
         step["run"] # Get(OptionsRead, "run")

\* a setupGitIdentity given gitIdentity, uses and run kept none of the
\* caller's three
C10_Witness ==
  /\ op = "setupGitIdentity"
  /\ {"gitIdentity", "uses", "run", "env"} \subseteq DOMAIN OptionsRead
  /\ DOMAIN step \cap {"gitIdentity", "uses"} = {}
  /\ step["run"] # OptionsRead["run"]
  /\ step["env"] = OptionsRead["env"]

---------------------------------------------------------------------------
(* Properties of Projenrc *)

\* a NewProjenrc step
Constructs == constructions' # constructions

\* a PreSynthesize step
Synthesizes == synthCalls' # synthCalls /\ Len(synthCalls') = Len(synthCalls)

Contains(text, part) ==
  \E i \in 1..(Len(text) - Len(part) + 1) : SubSeq(text, i, i + Len(part) - 1) = part

IsPrefix(a, b) == Len(a) <= Len(b) /\ SubSeq(b, 1, Len(a)) = a

\* the notice generateProjenrc logs for a path
Notice(path) == <<"Project definition file was created at ">> \o path

\* C1: a construction that finds a file at its resolved target writes
\* nothing, leaves every file as it is, logs nothing and throws nothing; no
\* step changes or removes an existing file, and no path is written twice.
C1_ExistingFileUntouched ==
  [][ /\ (Constructs /\ gen'.rcfile \in DOMAIN fs) =>
           /\ fs' = fs
           /\ writes' = writes
           /\ logger' = logger
           /\ thrown' = Undefined
      /\ \A q \in DOMAIN fs : q \in DOMAIN fs' /\ fs'[q] = fs[q]
      /\ \A i, j \in 1..Len(writes') : writes'[i] = writes'[j] => i = j ]_vars

\* a second construction, under another spelling of the file name, found the
\* file the first one had written
C1_Witness ==
  /\ constructions = 2
  /\ Len(components) = 2
  /\ components[1].rcfile # components[2].rcfile
  /\ writes = <<gen.rcfile>>
  /\ gen.exit = "exists"

\* C2: when a file is generated from a name of at least two segments, the
\* imports hold the second segment as a symbol of the module named by the
\* first, the file has that import statement, and the file constructs the
\* path made of all segments after the first joined by ".".
C2_ImportAndConstructor ==
  gen.exit = "written" =>
    \A segments \in FqnSegments :
      (Len(segments) >= 2 /\ initProject[2].fqn = Str(join(segments, <<".">>))) =>
        /\ gen.moduleName = Str(segments[1])
        /\ gen.importName = Str(segments[2])
        /\ \E i \in 1..Len(gen.imports) :
             /\ gen.imports[i].module = Str(segments[1])
             /\ Str(segments[2]) \in Range(gen.imports[i].names)
             /\ Contains(fs[gen.rcfile][2], asEsmImports(gen.imports)[i])
        /\ Contains(fs[gen.rcfile][2],
             <<"const project = new ">> \o join(Tail(segments), <<".">>) \o <<"(">>)

\* pkg.sub.Foo was generated, its import merged with one the options needed
C2_Witness ==
  /\ gen.exit = "written"
  /\ initProject[2].fqn = Str(<<"pkg", ".", "sub", ".", "Foo">>)
  /\ gen.className = Str(<<"sub", ".", "Foo">>)
  /\ gen.imports[1] = [module |-> Lit("pkg"), names |-> <<Lit("javascript"), Lit("sub")>>]

\* C7: the written text is the import statements, a blank line, the
\* constructor statement, a blank line and `project.synth();`, joined by
\* newlines.
C7_BlankSeparatorLines ==
  gen.exit = "written" =>
    fs[gen.rcfile] =
      Str(join(
        asEsmImports(gen.imports)
          \o << <<>>,
                <<"const project = new ">> \o Interp(gen.className) \o <<"(">>
                  \o gen.rendered[1].renderedOptions \o <<");">>,
                <<>>,
                <<"project.synth();">> >>,
        <<"\n">>))

\* C8: when renderJavaScriptOptions throws, the constructor throws that same
\* error, no file is written (none is at the target afterwards) and nothing
\* is logged; and a write happens only in a construction whose rendering
\* succeeded, once.
C8_RenderFailureWritesNothing ==
  [][ Constructs =>
        /\ (gen'.rendered # <<>> /\ ~gen'.rendered[1].ok) =>
             /\ thrown' = gen'.rendered[1].error
             /\ fs' = fs
             /\ writes' = writes
             /\ gen'.rcfile \notin DOMAIN fs'
             /\ logger' = logger
        /\ (fs' # fs \/ writes' # writes) =>
             /\ gen'.rendered # <<>>
             /\ gen'.rendered[1].ok
             /\ thrown' = Undefined
             /\ Len(writes') = Len(writes) + 1 ]_vars

\* a construction whose rendering threw: the error is the renderer's, the
\* target is not on disk
C8_Witness ==
  /\ gen.exit = "threw"
  /\ gen.rendered # <<>>
  /\ thrown = gen.rendered[1].error
  /\ thrown # Undefined
  /\ gen.rcfile \notin DOMAIN fs

\* C9: a construction that finds no file and no bootstrap descriptor ends
\* skipped: no write, no rendering, no notice, no error; and a construction
\* writes only when the file was absent and a descriptor is configured, and
\* then writes that one file and logs one notice naming its path.
C9_NoBootstrapSkips ==
  [][ Constructs =>
        /\ (gen'.rcfile \notin DOMAIN fs /\ ~Truthy(initProject)) =>
             /\ gen'.exit = "noBootstrap"
             /\ fs' = fs
             /\ writes' = writes
             /\ gen'.rendered = <<>>
             /\ logger' = logger
             /\ thrown' = Undefined
        /\ (fs' # fs \/ writes' # writes) =>
             /\ gen'.rcfile \notin DOMAIN fs
             /\ Truthy(initProject)
             /\ gen'.exit = "written"
             /\ DOMAIN fs' = DOMAIN fs \cup {gen'.rcfile}
             /\ writes' = Append(writes, gen'.rcfile)
             /\ logger' = Append(logger, Notice(gen'.rcfile))
             /\ thrown' = Undefined ]_vars

\* two constructions of a project without descriptor, both skipped
C9_Witness ==
  /\ ~Truthy(initProject)
  /\ constructions = 2
  /\ gen.exit = "noBootstrap"
  /\ fs = <<>>
  /\ logger = <<>>
  /\ thrown = Undefined

\* C6: preSynthesize throws nothing and only appends: each collection before
\* the call is a prefix of the collection after it; and a call on a component
\* whose preSynthesize already ran changes none of them.
C6_PreSynthesizeIdempotent ==
  [][ Synthesizes =>
        /\ thrown' = Undefined
        /\ IsPrefix(tsconfigDev.include, tsconfigDev'.include)
        /\ IsNullish(eslint) => eslint' = eslint
        /\ ~IsNullish(eslint) =>
             /\ ~IsNullish(eslint')
             /\ IsPrefix(eslint[2].lintPatterns, eslint'[2].lintPatterns)
             /\ IsPrefix(eslint[2].allowDevDeps, eslint'[2].allowDevDeps)
             /\ IsPrefix(eslint[2].ignorePatterns, eslint'[2].ignorePatterns)
             /\ IsPrefix(eslint[2].overrides, eslint'[2].overrides)
        /\ (\E i \in 1..Len(synthCalls) : synthCalls[i] >= 1 /\ synthCalls'[i] > synthCalls[i]) =>
             /\ tsconfigDev' = tsconfigDev
             /\ eslint' = eslint ]_vars

\* preSynthesize ran twice on one component of a project with eslint: the
\* file has one override and one include entry
C6_Witness ==
  /\ ~IsNullish(eslint)
  /\ \E i \in 1..Len(synthCalls) :
       /\ synthCalls[i] = 2
       /\ Len(eslint[2].overrides) = 1
       /\ Len(eslint[2].lintPatterns) = 3
       /\ Len(tsconfigDev.include) = 3

====
